---- MODULE Spec2Model ----
(***************************************************************************)
(* A model of the pdf-view repository: the fuzzy quote locator             *)
(* (findBestMatch, lenient in App.tsx and thresholded in PDFPreview.tsx),  *)
(* the highlight projector (drawHighlight / applyHighlight), the window    *)
(* manager of the windowed viewer (loadVisiblePages / handleScroll), the   *)
(* single-page viewer (the first App of App.tsx) and the PDFPreview        *)
(* component with its asynchronous fetches.                                *)
(*                                                                         *)
(* Strings are sequences of one-character strings, so that toLowerCase,    *)
(* trim, join and the bigram similarity are computed, not assumed.         *)
(* Scores are exact rationals [num, den]: the code's doubles are quotients *)
(* of small integers, compared with each other and with 0.8, and correctly *)
(* rounded division keeps both the order and the equalities.               *)
(***************************************************************************)
EXTENDS Integers, Sequences, FiniteSets, TLC

VARIABLES
  \* ---- locator / projector harness (pure functions applied to drawn inputs)
  textItemsIn,     \* the page's text items handed to the locator
  quoteIn,         \* the quote handed to the locator
  stage,           \* which functions have been applied so far
  lenientOut,      \* result of App.tsx findBestMatch
  strictOut,       \* result of PDFPreview.tsx findBestMatch
  rectsOut,        \* rectangles filled by PDFPreview.tsx applyHighlight
  canvasHeightIn,  \* canvas.height when applyHighlight runs
  rectO,           \* a token rectangle [x, y, w, h] handed to the image test
  imageAreaO,      \* the image area it is tested against
  intersectsO      \* intersectsWithImage: "untested", "intersects" or "clear"

ovVars == <<rectO, imageAreaO, intersectsO>>

locVars == <<textItemsIn, quoteIn, stage, lenientOut, strictOut, rectsOut,
             canvasHeightIn, ovVars>>

VARIABLES
  \* ---- the windowed viewer (the second App of App.tsx)
  docPagesW,       \* the page count of the document being opened
  focalW,          \* pdfPreviewParams.pageNumber
  numPagesW,       \* numPages
  isLoadingW,      \* isLoading
  visiblePages,    \* visiblePages, the materialized window
  seedPending,     \* the effect on [numPages, pageNumber, loadVisiblePages] is queued
  currentPage,     \* currentPage of the last handleScroll that got past its returns
  renderedPagesW,  \* renderedPages
  observedW,       \* the page numbers of the elements observerRef.current observes
  fetchesW,        \* the loadPdfText calls still awaiting, counted to MaxFetchesCounted
  textItemsW,      \* textItems
  drawsW,          \* the applyHighlight runs that drew, counted to MaxDrawsCounted
  highlightsW,     \* the rectangles on the focal page's canvas
  lastReadyByW     \* who called onRenderSuccess last: "none", "page" or "observer"

trkVars == <<renderedPagesW, observedW, fetchesW, textItemsW, drawsW, highlightsW,
             lastReadyByW>>

VARIABLES
  \* ---- the scroll listener of the windowed viewer, with time
  scrollTopD,      \* pdfRef.current.scrollTop
  sinceCallD,      \* ms since the debounced handleScroll was last called
  timerLeftD,      \* ms until the debounce timer expires, -1 when none is set
  burstCallsD,     \* calls of handleScroll since the timer was last started,
                   \* counted to MaxBurstCalls
  burstRunsD       \* runs of the handler body since the timer was last started

dbVars == <<scrollTopD, sinceCallD, timerLeftD, burstCallsD, burstRunsD>>

winVars == <<docPagesW, focalW, numPagesW, isLoadingW, visiblePages, seedPending,
             currentPage, trkVars, dbVars>>

VARIABLES
  \* ---- the single-page viewer (the first App of App.tsx)
  pageNumberS,     \* pageNumber
  numPagesS,       \* numPages
  highlightsS,     \* highlights
  requestsS,       \* the pages of the highlightTextInPage calls still awaiting
  highlightsPageS  \* the page whose text content highlights was computed from

simVars == <<pageNumberS, numPagesS, highlightsS, requestsS, highlightsPageS>>

VARIABLES
  \* ---- PDFPreview
  focalP,              \* pdfPreviewParams.pageNumber
  urlRequestP,         \* getPresignedUrl: "pending" or "done"
  presignedUrlP,       \* presignedUrl
  isFetchingPDFP,      \* isFetchingPDF
  isLoadingP,          \* isLoading
  isHighlightLoadingP, \* isHighlightLoading
  docLoadP,            \* the Document: "none", "loading", "loaded" or "failed"
  numPagesP,           \* numPages
  renderedPagesP,      \* renderedPages
  loadP,               \* the page of the loadPdfText call still awaiting, or 0
  textItemsP,          \* textItems
  imageAreasP,         \* imageAreas
  drawnPageP,          \* the page whose canvas applyHighlight last drew on, or 0
  drawnRectsP,         \* the rectangles filled on that canvas
  drawnFromP,          \* the page whose tokens those rectangles were computed from
  scrollsScheduledP    \* how many scrollToPage timers have been set, counted
                       \* up to MaxScrollsCounted

preVars == <<focalP, urlRequestP, presignedUrlP, isFetchingPDFP, isLoadingP,
             isHighlightLoadingP, docLoadP, numPagesP, renderedPagesP, loadP,
             textItemsP, imageAreasP, drawnPageP, drawnRectsP, drawnFromP,
             scrollsScheduledP>>

VARIABLES
  \* ---- the progress caption of the loading overlay
  docPagesT,       \* the page count of the document being opened
  numPagesT,       \* numPages
  renderedCountT,  \* renderedPages.length
  captionAllT,     \* the percentage in the all-pages viewer's caption
  captionPreT      \* the percentage in PDFPreview's caption

VARIABLES
  \* ---- the all-pages viewer (the App of server.js): its fetch trigger
  numPagesA,       \* numPages
  renderedPagesA,  \* renderedPages
  textItemsA,      \* textItems
  inFlightA,       \* the loadPdfText calls that have not settled yet
  highlightsA      \* the rectangles on the focal page's canvas

apVars == <<numPagesA, renderedPagesA, textItemsA, inFlightA, highlightsA>>

capVars == <<docPagesT, numPagesT, renderedCountT, captionAllT, captionPreT, apVars>>

vars == <<locVars, winVars, simVars, preVars, capVars>>

(***************************************************************************)
(* Bounds of the model.                                                    *)
(***************************************************************************)
MaxItems == 2
PageHeightPx == 2
MaxExtraPx == 13
MaxScrollTop == 35
CanvasHeightPx == 4
SimpleDocPages == 3
MaxInFlight == 2
ViewportHeightPx == 10
PreviewDocPages == 2
MaxScrollsCounted == 2
MaxCaptionPages == 200
MaxFetchesCounted == 2
MaxDrawsCounted == 2
MaxBurstCalls == 3
MaxLineItems == 4
MaxCoordPx == 2
AllPagesDocPages == 4
MaxSidePx == 2
TicksPerWait == 4

(***************************************************************************)
(* Strings.                                                                *)
(***************************************************************************)
Chars == {"a", "A", " "}

UpperCase == <<"A", "B", "C", "D", "E", "F", "G", "H", "I", "J", "K", "L", "M",
               "N", "O", "P", "Q", "R", "S", "T", "U", "V", "W", "X", "Y", "Z">>
LowerCase == <<"a", "b", "c", "d", "e", "f", "g", "h", "i", "j", "k", "l", "m",
               "n", "o", "p", "q", "r", "s", "t", "u", "v", "w", "x", "y", "z">>

\* String.prototype.toLowerCase, one character
ToLowerChar(c) ==
  IF \E k \in 1..Len(UpperCase) : UpperCase[k] = c
  THEN LowerCase[CHOOSE k \in 1..Len(UpperCase) : UpperCase[k] = c]
  ELSE c

ToLowerCase(s) == [k \in 1..Len(s) |-> ToLowerChar(s[k])]

IsSpace(c) == c = " "

RECURSIVE TrimStart(_)
TrimStart(s) ==
  IF s # <<>> /\ IsSpace(Head(s)) THEN TrimStart(Tail(s)) ELSE s

RECURSIVE TrimEnd(_)
TrimEnd(s) ==
  IF s # <<>> /\ IsSpace(s[Len(s)]) THEN TrimEnd(SubSeq(s, 1, Len(s) - 1)) ELSE s

\* String.prototype.trim
Trim(s) == TrimEnd(TrimStart(s))

\* first.replace(/\s+/g, '')
StripSpaces(s) == SelectSeq(s, LAMBDA c : ~IsSpace(c))

\* all strings over Chars of length 0..n
RECURSIVE StringsUpTo(_)
StringsUpTo(n) ==
  IF n = 0 THEN {<<>>}
  ELSE LET shorter == StringsUpTo(n - 1)
       IN shorter \cup {Append(s, c) : s \in {t \in shorter : Len(t) = n - 1}, c \in Chars}

(***************************************************************************)
(* Scores: exact rationals with a positive denominator.                    *)
(***************************************************************************)
Score(n, d) == [num |-> n, den |-> d]
NoScore == Score(-1, 1)
ScoreOne == Score(1, 1)
ScoreZero == Score(0, 1)
ScoreGreater(s, t) == s.num * t.den > t.num * s.den
ScoreEqual(s, t) == s.num * t.den = t.num * s.den

\* stringSimilarity.compareTwoStrings: Dice coefficient over character
\* bigrams of the whitespace-stripped strings, counted with multiplicity
Bigrams(s) == [k \in 1..(Len(s) - 1) |-> <<s[k], s[k + 1]>>]

CountIn(seq, e) == Cardinality({k \in 1..Len(seq) : seq[k] = e})

\* the second loop: each bigram of `second` uses up one occurrence in `first`
IntersectionSize(first, second) ==
  LET fb == Bigrams(first)
      sb == Bigrams(second)
      used(k) == Cardinality({m \in 1..k : sb[m] = sb[k]})
  IN Cardinality({k \in 1..Len(sb) : used(k) <= CountIn(fb, sb[k])})

CompareTwoStrings(a, b) ==
  LET first == StripSpaces(a)
      second == StripSpaces(b)
  IN IF first = second THEN ScoreOne
     ELSE IF Len(first) < 2 \/ Len(second) < 2 THEN ScoreZero
     ELSE Score(2 * IntersectionSize(first, second), Len(first) + Len(second) - 2)

(***************************************************************************)
(* Text items and lines.                                                   *)
(***************************************************************************)
\* a PDFTextItem: str, hasEOL, transform[4] (x), transform[5] (y), width, height
Item(str, eol, x, y, w, h) ==
  [str |-> str, hasEOL |-> eol, x |-> x, y |-> y, width |-> w, height |-> h]

\* prepareTextLines: a line ends after an item with hasEOL, or at the page end
RECURSIVE GroupLines(_, _, _)
GroupLines(items, lines, currentLine) ==
  IF items = <<>>
  THEN IF Len(currentLine) > 0 THEN Append(lines, currentLine) ELSE lines
  ELSE LET pushed == Append(currentLine, Head(items))
       IN IF Head(items).hasEOL
          THEN GroupLines(Tail(items), Append(lines, pushed), <<>>)
          ELSE GroupLines(Tail(items), lines, pushed)

\* a grouping that drops the tokens after the last hasEOL
PrepareTextLinesNoTail(items) ==
  SelectSeq(GroupLines(items, <<>>, <<>>), LAMBDA line : line[Len(line)].hasEOL)

PrepareTextLines(items) == GroupLines(items, <<>>, <<>>)

\* line.map((item) => item.str).join(" ")
RECURSIVE GetTextSegment(_)
GetTextSegment(line) ==
  IF line = <<>> THEN <<>>
  ELSE IF Len(line) = 1 THEN line[1].str
  ELSE line[1].str \o <<" ">> \o GetTextSegment(Tail(line))

\* bestMatch.lines.flat()
RECURSIVE Flat(_)
Flat(lines) == IF lines = <<>> THEN <<>> ELSE Head(lines) \o Flat(Tail(lines))

(***************************************************************************)
(* The fuzzy quote locator.                                                *)
(***************************************************************************)
\* a locator that starts from score 0
InitialBestMatchZero == [score |-> ScoreZero, lines |-> <<>>]

\* let bestMatch = { score: -1, lines: [] }
InitialBestMatch == [score |-> NoScore, lines |-> <<>>]

\* the acceptance threshold of PDFPreview.tsx: 0.8
Threshold == Score(4, 5)

\* a lenient locator that lets a later span of equal score win
AcceptLenientOrEqual(score, bestMatch) == ~ScoreGreater(bestMatch.score, score)

\* App.tsx: if (score > bestMatch.score)
AcceptLenient(score, bestMatch) == ScoreGreater(score, bestMatch.score)

\* a thresholded locator that accepts every span that beats the best so far
AcceptThresholdIgnored(score, bestMatch) == ScoreGreater(score, bestMatch.score)

\* PDFPreview.tsx: if (score > 0.8)
AcceptThreshold(score, bestMatch) == ScoreGreater(score, Threshold)

\* if (combinedText.length > normalizedQuote.length * 1.5) break
\* a locator that never stops growing the span
ExceedsBoundNever(combinedText, normalizedQuote) == FALSE

ExceedsBound(combinedText, normalizedQuote) ==
  2 * Len(combinedText) > 3 * Len(normalizedQuote)

\* quote.toLowerCase().trim(), getTextSegment(lines[j]).toLowerCase().trim()
Normalize(s) == Trim(ToLowerCase(s))

\* combinedText += (j > i ? " " : "") + getTextSegment(lines[j]).toLowerCase().trim()
Combine(combinedText, lines, i, j) ==
  combinedText \o (IF j > i THEN <<" ">> ELSE <<>>) \o Normalize(GetTextSegment(lines[j]))

\* a slice that stops one line short of the span
SpanLinesShort(lines, i, j) == SubSeq(lines, i, j - 1)

\* lines.slice(i, j + 1), lines 1-based here
SpanLines(lines, i, j) == SubSeq(lines, i, j)

\* the inner loop: for (let j = i; j < lines.length; j++), lines 1-based here
RECURSIVE GrowSpan(_, _, _, _, _, _, _)
GrowSpan(strict, lines, normalizedQuote, i, j, combinedText, bestMatch) ==
  IF j > Len(lines) THEN bestMatch
  ELSE LET combined == Combine(combinedText, lines, i, j)
           score == CompareTwoStrings(combined, normalizedQuote)
           accepted == IF strict THEN AcceptThreshold(score, bestMatch)
                                 ELSE AcceptLenient(score, bestMatch)
           best == IF accepted
                   THEN [score |-> score, lines |-> SpanLines(lines, i, j)]
                   ELSE bestMatch
       IN IF ExceedsBound(combined, normalizedQuote) THEN best
          ELSE GrowSpan(strict, lines, normalizedQuote, i, j + 1, combined, best)

\* the outer loop: for (let i = 0; i < lines.length; i++)
RECURSIVE ScanStarts(_, _, _, _, _)
ScanStarts(strict, lines, normalizedQuote, i, bestMatch) ==
  IF i > Len(lines) THEN bestMatch
  ELSE ScanStarts(strict, lines, normalizedQuote, i + 1,
                  GrowSpan(strict, lines, normalizedQuote, i, i, <<>>, bestMatch))

\* the spans <<i, j>> the inner loop scores from start line i: it scores
\* (i, j), then breaks if the combined text exceeds the bound
RECURSIVE ScoredFrom(_, _, _, _, _)
ScoredFrom(lines, normalizedQuote, i, j, combinedText) ==
  IF j > Len(lines) THEN {}
  ELSE LET combined == Combine(combinedText, lines, i, j)
       IN {<<i, j>>} \cup
          (IF ExceedsBound(combined, normalizedQuote) THEN {}
           ELSE ScoredFrom(lines, normalizedQuote, i, j + 1, combined))

\* the spans compareTwoStrings is called on, over both loops
ScoredSpans(lines, quote) ==
  UNION {ScoredFrom(lines, Normalize(quote), i, i, <<>>) : i \in 1..Len(lines)}

\* App.tsx findBestMatch: the best span whatever its score
FindBestMatch(lines, quote) ==
  ScanStarts(FALSE, lines, Normalize(quote), 1, InitialBestMatch)

\* PDFPreview.tsx findBestMatch: spans scoring above 0.8 only
FindBestMatchThreshold(lines, quote) ==
  ScanStarts(TRUE, lines, Normalize(quote), 1, InitialBestMatch)

(***************************************************************************)
(* The highlight projector of PDFPreview.tsx.                              *)
(***************************************************************************)
\* useState<ImageArea[]>([])
InitialImageAreas == <<>>

\* drawHighlight is memoized with an empty dependency list: the callback of
\* the first render is kept for the component's life, and the imageAreas it
\* reads is that render's value, the initial state
DrawHighlightImageAreas == InitialImageAreas

\* a projection that keeps the page-space y
FlippedRectUnflipped(item, canvasHeight) ==
  [x |-> item.x, y |-> item.y, width |-> item.width, height |-> item.height]

\* [x, y, w, h] of an item on a canvas of the given height
FlippedRect(item, canvasHeight) ==
  [x |-> item.x, y |-> canvasHeight - item.y - item.height,
   width |-> item.width, height |-> item.height]

\* the overlap test of drawHighlight, for one image area
Overlaps(r, imageArea) ==
  /\ r.x < imageArea.x + imageArea.width
  /\ r.x + r.width > imageArea.x
  /\ r.y < imageArea.y + imageArea.height
  /\ r.y + r.height > imageArea.y

\* imageAreas.some(...)
IntersectsWithImage(r, areas) == \E k \in 1..Len(areas) : Overlaps(r, areas[k])

\* the rectangles drawHighlight fills, in item order
DrawHighlight(canvasHeight, items) ==
  SelectSeq([k \in 1..Len(items) |-> FlippedRect(items[k], canvasHeight)],
            LAMBDA r : ~IntersectsWithImage(r, DrawHighlightImageAreas))

\* applyHighlight once its canvas, context and page element are found and
\* textItems is not empty: the canvas is cleared, then holds what drawHighlight
\* fills; nothing is filled when no line matched
ApplyHighlightRects(items, quote, canvasHeight) ==
  LET bestMatch == FindBestMatchThreshold(PrepareTextLines(items), quote)
  IN IF Len(bestMatch.lines) = 0 THEN <<>>
     ELSE DrawHighlight(canvasHeight, Flat(bestMatch.lines))

(***************************************************************************)
(* The locator harness: a page's items and a quote are drawn, then the     *)
(* lenient locator, the thresholded locator and applyHighlight are applied.*)
(***************************************************************************)
\* items of the harness: item k sits at x = k, so that equal text at two
\* places of the page is two different items, as in a PDF
\* the strings of the harness items: empty, one character (a letter of either
\* case or a space), and a two-letter word of mixed case
ItemStrs == StringsUpTo(1) \cup {<<"A", "a">>}

RECURSIVE ItemLists(_)
ItemLists(n) ==
  IF n = 0 THEN {<<>>}
  ELSE LET shorter == ItemLists(n - 1)
       IN shorter \cup
          {Append(l, Item(s, e, n, 0, 1, 1)) :
             l \in {t \in shorter : Len(t) = n - 1},
             s \in ItemStrs, e \in BOOLEAN}

\* the quotes of the harness: every string of at most three characters
Quotes == StringsUpTo(3)

SmallInputs ==
  {[items |-> l, quote |-> q] : l \in ItemLists(MaxItems), q \in Quotes}

HelloWorld == <<"H", "e", "l", "l", "o", " ", "w", "o", "r", "l", "d">>
ThisIsATest == <<"t", "h", "i", "s", " ", "i", "s", " ", "a", " ", "t", "e", "s", "t">>
QuoteA == <<"h", "e", "l", "l", "o", " ", "w", "o", "r", "l", "d", " ",
            "t", "h", "i", "s", " ", "i", "s", " ", "a", " ", "t", "e", "s", "t">>
QuoteB == <<"c", "o", "m", "p", "l", "e", "t", "e", "l", "y", " ",
            "u", "n", "r", "e", "l", "a", "t", "e", "d", " ", "t", "e", "x", "t">>
ScenarioLines == <<Item(HelloWorld, TRUE, 1, 0, 1, 1), Item(ThisIsATest, TRUE, 2, 0, 1, 1)>>
TestLines == <<Item(<<"T", "e", "s", "t">>, TRUE, 1, 0, 1, 1), Item(<<"s">>, TRUE, 2, 0, 1, 1)>>

\* the scenarios of the specification, and a page whose first line is the
\* quote and whose first two lines together still score above 0.8
ScenarioInputs ==
  { [items |-> ScenarioLines, quote |-> QuoteA],
    [items |-> ScenarioLines, quote |-> QuoteB],
    [items |-> TestLines, quote |-> <<"t", "e", "s", "t">>] }

\* every pattern of hasEOL flags over at most n tokens
RECURSIVE TokenLists(_)
TokenLists(n) ==
  IF n = 0 THEN {<<>>}
  ELSE LET shorter == TokenLists(n - 1)
       IN shorter \cup
          {Append(l, Item(<<"a">>, e, n, 0, 1, 1)) :
             l \in {t \in shorter : Len(t) = n - 1}, e \in BOOLEAN}

GroupingInputs == {[items |-> l, quote |-> <<"a">>] : l \in TokenLists(MaxLineItems)}

\* the windowed viewer before any document is opened
WinIdle ==
  /\ docPagesW = 0
  /\ focalW = 0
  /\ numPagesW = 0
  /\ isLoadingW = TRUE
  /\ visiblePages = <<>>
  /\ seedPending = FALSE
  /\ currentPage = 0
  /\ renderedPagesW = <<>>
  /\ observedW = {}
  /\ fetchesW = 0
  /\ textItemsW = <<>>
  /\ drawsW = 0
  /\ highlightsW = <<>>
  /\ lastReadyByW = "none"
  /\ scrollTopD = 0
  /\ sinceCallD = 0
  /\ timerLeftD = -1
  /\ burstCallsD = 0
  /\ burstRunsD = 0

\* the single-page viewer before it is mounted
SimIdle ==
  /\ pageNumberS = 0
  /\ numPagesS = 0
  /\ highlightsS = <<>>
  /\ requestsS = <<>>
  /\ highlightsPageS = 0

\* PDFPreview before it is mounted
PreIdle ==
  /\ focalP = 0
  /\ urlRequestP = "none"
  /\ presignedUrlP = ""
  /\ isFetchingPDFP = FALSE
  /\ isLoadingP = TRUE
  /\ isHighlightLoadingP = FALSE
  /\ docLoadP = "none"
  /\ numPagesP = 0
  /\ renderedPagesP = <<>>
  /\ loadP = 0
  /\ textItemsP = <<>>
  /\ imageAreasP = <<>>
  /\ drawnPageP = 0
  /\ drawnRectsP = <<>>
  /\ drawnFromP = 0
  /\ scrollsScheduledP = 0

\* a JavaScript number that is not NaN, and NaN
Number(v) == [nan |-> FALSE, v |-> v]
NaN == [nan |-> TRUE, v |-> 0]

\* the all-pages viewer at mount: useState(0), useState([]), useState([])
ApIdle ==
  /\ numPagesA = 0
  /\ renderedPagesA = <<>>
  /\ textItemsA = <<>>
  /\ inFlightA = 0
  /\ highlightsA = <<>>

\* no overlay caption has been rendered
CapIdle ==
  /\ ApIdle
  /\ docPagesT = 0
  /\ numPagesT = 0
  /\ renderedCountT = 0
  /\ captionAllT = Number(0)
  /\ captionPreT = Number(0)

\* a token at (10, 700) of size 50 x 12 on a page 792 pixels high
ScenarioE ==
  [items |-> <<Item(HelloWorld, TRUE, 10, 700, 50, 12)>>,
   quote |-> <<"h", "e", "l", "l", "o", " ", "w", "o", "r", "l", "d">>,
   height |-> 792]

\* the locator harness at rest
\* the image test before any rectangle is handed to it
NoBox == [x |-> 0, y |-> 0, width |-> 0, height |-> 0]

OvIdle ==
  /\ rectO = NoBox
  /\ imageAreaO = NoBox
  /\ intersectsO = "untested"

LocIdle ==
  /\ textItemsIn = <<>>
  /\ quoteIn = <<>>
  /\ stage = "idle"
  /\ lenientOut = InitialBestMatch
  /\ strictOut = InitialBestMatch
  /\ rectsOut = <<>>
  /\ canvasHeightIn = 0
  /\ OvIdle

LocInit ==
  /\ \/ \E in \in SmallInputs \cup ScenarioInputs \cup GroupingInputs :
          /\ textItemsIn = in.items
          /\ quoteIn = in.quote
          /\ canvasHeightIn = CanvasHeightPx
     \/ /\ textItemsIn = ScenarioE.items
        /\ quoteIn = ScenarioE.quote
        /\ canvasHeightIn = ScenarioE.height
  /\ stage = "input"
  /\ lenientOut = InitialBestMatch
  /\ strictOut = InitialBestMatch
  /\ rectsOut = <<>>
  /\ OvIdle
  /\ WinIdle /\ SimIdle /\ PreIdle /\ CapIdle

LocateLenient ==
  /\ stage = "input"
  /\ lenientOut' = FindBestMatch(PrepareTextLines(textItemsIn), quoteIn)
  /\ stage' = "lenient"
  /\ UNCHANGED <<textItemsIn, quoteIn, strictOut, rectsOut, canvasHeightIn>>
  /\ UNCHANGED <<ovVars, winVars, simVars, preVars, capVars>>

LocateStrict ==
  /\ stage = "lenient"
  /\ strictOut' = FindBestMatchThreshold(PrepareTextLines(textItemsIn), quoteIn)
  /\ stage' = "strict"
  /\ UNCHANGED <<textItemsIn, quoteIn, lenientOut, rectsOut, canvasHeightIn>>
  /\ UNCHANGED <<ovVars, winVars, simVars, preVars, capVars>>

\* applyHighlight with the page's canvas mounted: it returns at once when
\* textItems is empty
HighlightPage ==
  /\ stage = "strict"
  /\ rectsOut' = IF Len(textItemsIn) = 0 THEN rectsOut
                 ELSE ApplyHighlightRects(textItemsIn, quoteIn, canvasHeightIn)
  /\ stage' = "highlighted"
  /\ UNCHANGED <<textItemsIn, quoteIn, lenientOut, strictOut, canvasHeightIn>>
  /\ UNCHANGED <<ovVars, winVars, simVars, preVars, capVars>>

LocNext == LocateLenient \/ LocateStrict \/ HighlightPage

SpecLocate == LocInit /\ [][LocNext]_vars

\* the token rectangles and image areas handed to the image test: token
\* rectangles may be degenerate (pdf.js reports empty items of width 0)
TokenBoxes ==
  [x : 0..MaxCoordPx, y : 0..MaxCoordPx, width : 0..MaxSidePx, height : 0..MaxSidePx]

ImageBoxes ==
  [x : 0..MaxCoordPx, y : 0..MaxCoordPx, width : 1..MaxSidePx, height : 1..MaxSidePx]

OvInit ==
  /\ rectO \in TokenBoxes
  /\ imageAreaO \in ImageBoxes
  /\ intersectsO = "untested"
  /\ textItemsIn = <<>>
  /\ quoteIn = <<>>
  /\ stage = "idle"
  /\ lenientOut = InitialBestMatch
  /\ strictOut = InitialBestMatch
  /\ rectsOut = <<>>
  /\ canvasHeightIn = 0
  /\ WinIdle /\ SimIdle /\ PreIdle /\ CapIdle

\* the test drawHighlight makes for one rectangle, against a list holding
\* the one image area
TestIntersects ==
  /\ intersectsO = "untested"
  /\ intersectsO' = IF IntersectsWithImage(rectO, <<imageAreaO>>)
                     THEN "intersects" ELSE "clear"
  /\ UNCHANGED <<rectO, imageAreaO>>
  /\ UNCHANGED <<textItemsIn, quoteIn, stage, lenientOut, strictOut, rectsOut,
                 canvasHeightIn>>
  /\ UNCHANGED <<winVars, simVars, preVars, capVars>>

OvNext == TestIntersects

SpecOverlap == OvInit /\ [][OvNext]_vars

(***************************************************************************)
(* The window manager of the windowed viewer (the second App of App.tsx).  *)
(***************************************************************************)
\* const PAGES_TO_LOAD = 5
PAGES_TO_LOAD == 5

Max(a, b) == IF a > b THEN a ELSE b
Min(a, b) == IF a < b THEN a ELSE b

Range(seq) == {seq[k] : k \in 1..Len(seq)}

\* an Array.from that stops one element short
ArrayFromShort(start, end) ==
  [i \in 1..Max(0, end - start) |-> start + (i - 1)]

\* Array.from({ length: end - start + 1 }, (_, i) => start + i): a length
\* below zero is taken as zero
ArrayFrom(start, end) ==
  [i \in 1..Max(0, end - start + 1) |-> start + (i - 1)]

\* a spread without the Set: every element kept
DedupKeepsAll(seq, kept) == kept \o seq

\* [...new Set(seq)]: the first occurrence of each value, in order
RECURSIVE Dedup(_, _)
Dedup(seq, kept) ==
  IF seq = <<>> THEN kept
  ELSE IF Head(seq) \in Range(kept) THEN Dedup(Tail(seq), kept)
  ELSE Dedup(Tail(seq), Append(kept, Head(seq)))

\* an array left in insertion order
SortAscendingOmitted(seq) == seq

\* .sort((a, b) => a - b)
SortAscending(seq) == SortSeq(seq, LAMBDA a, b : a < b)

\* a window manager that keeps only the pages around the last centre
LoadVisiblePagesEvicting(prevPages, centerPage, n) ==
  ArrayFrom(Max(1, centerPage - PAGES_TO_LOAD), Min(n, centerPage + PAGES_TO_LOAD))

\* a window manager that forgets to clamp the range to the document
LoadVisiblePagesUnclamped(prevPages, centerPage, n) ==
  SortAscending(Dedup(prevPages \o
     ArrayFrom(centerPage - PAGES_TO_LOAD, centerPage + PAGES_TO_LOAD), <<>>))

\* loadVisiblePages(centerPage) with numPages = n, as the new visiblePages
LoadVisiblePages(prevPages, centerPage, n) ==
  LET start == Max(1, centerPage - PAGES_TO_LOAD)
      end == Min(n, centerPage + PAGES_TO_LOAD)
      newPages == ArrayFrom(start, end)
  IN SortAscending(Dedup(prevPages \o newPages, <<>>))

\* a scroll handler that only loads the pages around the current page
ExpandNoForce(prevPages, cur, n) == LoadVisiblePages(prevPages, cur, n)

\* the three loadVisiblePages calls of handleScroll, applied in order
Expand(prevPages, cur, n) ==
  LET first == LoadVisiblePages(prevPages, cur, n)
  IN IF cur - PAGES_TO_LOAD <= 1
     THEN LoadVisiblePages(first, Max(1, cur - PAGES_TO_LOAD), n)
     ELSE IF cur + PAGES_TO_LOAD >= n
     THEN LoadVisiblePages(first, Min(n, cur + PAGES_TO_LOAD), n)
     ELSE first

\* Math.floor(scrollPosition / pageHeight) + 1
CurrentPageAt(scrollPosition, pageHeight) == (scrollPosition \div pageHeight) + 1

\* the documents opened and the focal pages asked for
DocPageCounts == {1, 3, 10, 11, 12, 100}
FocalPages == {1, 5, 50, 144}

\* clientHeight of the first .react-pdf__Page: 0 while no page is in the DOM
PageHeights == IF Len(visiblePages) = 0 THEN {0} ELSE {0, PageHeightPx}

\* scrollTop ranges over the laid-out pages, explored up to MaxScrollTop;
\* pages taller than the first one add up to MaxExtraPx
ScrollPositions ==
  0..Min(MaxScrollTop, Len(visiblePages) * PageHeightPx + MaxExtraPx)

\* useEffect(() => { loadPdfText() }, [numPages, renderedPages, pageNumber]):
\* one more call awaits
StartLoadPdfText(fetches) == Min(MaxFetchesCounted, fetches + 1)

\* the effect on [pageComponents]: every [data-page-number] element of the
\* window is handed to the current observer
ObservedElements(pages) == Range(pages)

\* the viewer after its first commit: the mount effects have run, the fetch
\* effect among them
Mounted(docPages, focal) ==
  /\ docPagesW = docPages
  /\ focalW = focal
  /\ numPagesW = 0
  /\ isLoadingW = TRUE
  /\ visiblePages = <<>>
  /\ seedPending = FALSE
  /\ currentPage = 0
  /\ renderedPagesW = <<>>
  /\ observedW = {}
  /\ fetchesW = StartLoadPdfText(0)
  /\ textItemsW = <<>>
  /\ drawsW = 0
  /\ highlightsW = <<>>
  /\ lastReadyByW = "none"
  /\ scrollTopD = 0
  /\ sinceCallD = 0
  /\ timerLeftD = -1
  /\ burstCallsD = 0
  /\ burstRunsD = 0

WinInit ==
  /\ \E docPages \in DocPageCounts, focal \in FocalPages : Mounted(docPages, focal)
  /\ LocIdle /\ SimIdle /\ PreIdle /\ CapIdle

\* onLoadSuccess: the Document reports the page count, once
OnLoadSuccessW ==
  /\ numPagesW = 0
  /\ numPagesW' = docPagesW
  /\ isLoadingW' = FALSE
  /\ seedPending' = TRUE
  /\ fetchesW' = StartLoadPdfText(fetchesW)
  /\ UNCHANGED <<docPagesW, focalW, visiblePages, currentPage>>
  /\ UNCHANGED <<renderedPagesW, observedW, textItemsW, drawsW, highlightsW,
                 lastReadyByW>>
  /\ UNCHANGED <<locVars, simVars, preVars, capVars, dbVars>>

\* useEffect(() => { if (numPages > 0) loadVisiblePages(pageNumber) })
SeedWindow ==
  /\ seedPending
  /\ seedPending' = FALSE
  /\ visiblePages' = IF numPagesW > 0
                     THEN LoadVisiblePages(visiblePages, focalW, numPagesW)
                     ELSE visiblePages
  /\ observedW' = IF numPagesW > 0 THEN ObservedElements(visiblePages')
                  ELSE observedW
  /\ UNCHANGED <<docPagesW, focalW, numPagesW, isLoadingW, currentPage>>
  /\ UNCHANGED <<renderedPagesW, fetchesW, textItemsW, drawsW, highlightsW,
                 lastReadyByW>>
  /\ UNCHANGED <<locVars, simVars, preVars, capVars, dbVars>>

\* pageComponents lays the pages of visiblePages out one under the other, in
\* the order of the array: the page whose box holds the offset scrollPosition
PageAtTop(pages, scrollPosition, pageHeight) ==
  pages[Min(Len(pages), (scrollPosition \div pageHeight) + 1)]

\* the debounced body of handleScroll, run at a scroll position
HandleScrollAt(scrollPosition, pageHeight) ==
  /\ IF pageHeight = 0
     THEN UNCHANGED <<visiblePages, currentPage, observedW>>
     ELSE /\ currentPage' = CurrentPageAt(scrollPosition, pageHeight)
          /\ visiblePages' = Expand(visiblePages, currentPage', numPagesW)
          /\ observedW' = ObservedElements(visiblePages')
  /\ UNCHANGED <<docPagesW, focalW, numPagesW, isLoadingW, seedPending>>
  /\ UNCHANGED <<renderedPagesW, fetchesW, textItemsW, drawsW, highlightsW,
                 lastReadyByW>>
  /\ UNCHANGED <<locVars, simVars, preVars, capVars>>

HandleScroll ==
  \E pageHeight \in PageHeights :
     \E scrollPosition \in (IF pageHeight = 0 THEN {0} ELSE ScrollPositions) :
        HandleScrollAt(scrollPosition, pageHeight) /\ UNCHANGED dbVars

WinNext == OnLoadSuccessW \/ SeedWindow \/ HandleScroll

SpecWindow == WinInit /\ [][WinNext]_vars


(***************************************************************************)
(* The single-page viewer (the first App of App.tsx).                      *)
(***************************************************************************)
\* const highlightText = "Abstract"
HighlightText == <<"A", "b", "s", "t", "r", "a", "c", "t">>

\* s.includes(t)
Includes(s, t) ==
  \E k \in 0..(Len(s) - Len(t)) : SubSeq(s, k + 1, k + Len(t)) = t

\* textContent.items of a page of the document the viewer shows
SimplePageItems(page) ==
  IF page = 1
  THEN <<Item(<<"A", "b", "s", "t", "r", "a", "c", "t">>, TRUE, 1, 8, 4, 1),
         Item(<<"x">>, TRUE, 1, 6, 1, 1)>>
  ELSE IF page = 2
  THEN <<Item(<<"a", "b", "s", "t", "r", "a", "c", "t", "s">>, FALSE, 2, 5, 4, 1)>>
  ELSE <<Item(<<"x">>, TRUE, page, 1, 1, 1)>>

\* newHighlights of highlightTextInPage(text, page)
NewHighlights(text, page) ==
  LET items == SimplePageItems(page)
      hits == SelectSeq(items,
                LAMBDA item : Includes(ToLowerCase(item.str), ToLowerCase(text)))
  IN [k \in 1..Len(hits) |->
        [x |-> hits[k].x,
         y |-> ViewportHeightPx - hits[k].y - hits[k].height,
         width |-> hits[k].width,
         height |-> hits[k].height]]

\* a sequence without its i-th element
Remove(seq, i) == SubSeq(seq, 1, i - 1) \o SubSeq(seq, i + 1, Len(seq))

\* what the page-number input can hold: 0 stands for the empty field
InputValues == (-1)..(SimpleDocPages + 1)

\* the viewer once mounted: the effect on [pageNumber, highlightText] has
\* called highlightTextInPage for page 1
SimInit ==
  /\ pageNumberS = 1
  /\ numPagesS = 0
  /\ highlightsS = <<>>
  /\ requestsS = <<1>>
  /\ highlightsPageS = 0
  /\ LocIdle /\ WinIdle /\ PreIdle /\ CapIdle

\* onLoadSuccess
OnLoadSuccessS ==
  /\ numPagesS = 0
  /\ numPagesS' = SimpleDocPages
  /\ UNCHANGED <<pageNumberS, highlightsS, requestsS, highlightsPageS>>
  /\ UNCHANGED <<locVars, winVars, preVars, capVars>>

\* handleChange, then the effect on [pageNumber, highlightText]
HandleChange(value) ==
  LET newPageNumber == IF value = 0 THEN 1 ELSE value
      next == Min(newPageNumber, numPagesS)
  IN /\ pageNumberS' = next
     /\ IF next # pageNumberS /\ next # 0
        THEN /\ Len(requestsS) < MaxInFlight
             /\ requestsS' = Append(requestsS, next)
        ELSE UNCHANGED requestsS
     /\ UNCHANGED <<numPagesS, highlightsS, highlightsPageS>>
     /\ UNCHANGED <<locVars, winVars, preVars, capVars>>

\* the Highlight Text button
ClickHighlight ==
  /\ Len(requestsS) < MaxInFlight
  /\ requestsS' = Append(requestsS, pageNumberS)
  /\ UNCHANGED <<pageNumberS, numPagesS, highlightsS, highlightsPageS>>
  /\ UNCHANGED <<locVars, winVars, preVars, capVars>>

\* the awaits of one highlightTextInPage call complete: setHighlights
HighlightFetchResolves(i) ==
  /\ i \in 1..Len(requestsS)
  /\ requestsS[i] \in 1..SimpleDocPages
  /\ highlightsS' = NewHighlights(HighlightText, requestsS[i])
  /\ highlightsPageS' = requestsS[i]
  /\ requestsS' = Remove(requestsS, i)
  /\ UNCHANGED <<pageNumberS, numPagesS>>
  /\ UNCHANGED <<locVars, winVars, preVars, capVars>>

\* one highlightTextInPage call rejects (the proxy, or getPage of a page the
\* document does not have)
HighlightFetchRejects(i) ==
  /\ i \in 1..Len(requestsS)
  /\ requestsS' = Remove(requestsS, i)
  /\ UNCHANGED <<pageNumberS, numPagesS, highlightsS, highlightsPageS>>
  /\ UNCHANGED <<locVars, winVars, preVars, capVars>>

SimNext ==
  \/ OnLoadSuccessS
  \/ \E value \in InputValues : HandleChange(value)
  \/ ClickHighlight
  \/ \E i \in 1..MaxInFlight : HighlightFetchResolves(i)
  \/ \E i \in 1..MaxInFlight : HighlightFetchRejects(i)

SpecSimple == SimInit /\ [][SimNext]_vars

(***************************************************************************)
(* PDFPreview.                                                             *)
(***************************************************************************)
\* pdfPreviewParams.quote
PreviewQuote == QuoteA

\* textContent.items of a page of the previewed document
PreviewPageItems(page) ==
  IF page = 1
  THEN <<Item(HelloWorld, TRUE, 1, 1, 2, 1), Item(ThisIsATest, TRUE, 1, 0, 2, 1)>>
  ELSE IF page = 2
  THEN <<Item(ThisIsATest, TRUE, 5, 1, 2, 1)>>
  ELSE <<>>

\* the operator list of a page: fnArray and argsArray, zipped
PreviewPageOperators(page) ==
  IF page = 1
  THEN <<[fn |-> "paintImageXObject", args |-> <<"img_1", 0, 2, 3, 2>>],
         [fn |-> "showText", args |-> <<>>]>>
  ELSE <<[fn |-> "showText", args |-> <<>>]>>

\* newImageAreas of loadPdfText
NewImageAreas(operators) ==
  LET paints == SelectSeq(operators, LAMBDA op : op.fn = "paintImageXObject")
  IN [k \in 1..Len(paints) |->
        [x |-> paints[k].args[2], y |-> paints[k].args[3],
         width |-> paints[k].args[4], height |-> paints[k].args[5]]]

\* the pages the store can name as pdfPreviewParams.pageNumber
PreviewFocalPages == 1..PreviewDocPages

\* a viewer whose canvases exist whatever the Document reported
CanvasMountedAlways(page) == page \in 1..PreviewDocPages

\* canvasRefs.current[page - 1] and the .react-pdf__Page element of the page
\* exist once the Document has rendered its pageComponents
CanvasMounted(page) == docLoadP = "loaded" /\ page \in 1..numPagesP

\* the effect on [numPages, renderedPages, pageNumber], as the new isLoading
CompletionEffect(n, rendered, loading) ==
  IF n > 0 /\ Len(rendered) = n THEN FALSE ELSE loading

\* the setTimeout of the same effect, as the new count of timers set
CompletionScrolls(n, rendered, scheduled) ==
  IF n > 0 /\ Len(rendered) = n
  THEN Min(scheduled + 1, MaxScrollsCounted)
  ELSE scheduled

\* a render tracker that drops a page arriving after a higher one
AddRenderedInOrder(prev, pageNumber) ==
  IF prev = <<>> \/ pageNumber > prev[Len(prev)]
  THEN Append(prev, pageNumber)
  ELSE prev

\* onRenderSuccess(pageNumber), as the new renderedPages
AddRendered(prev, pageNumber) == Dedup(Append(prev, pageNumber), <<>>)

\* PDFPreview once mounted: the effect on [presignedUrl] has called
\* fetchPresignedUrl
PreInit ==
  /\ focalP \in PreviewFocalPages
  /\ urlRequestP = "pending"
  /\ presignedUrlP = ""
  /\ isFetchingPDFP = TRUE
  /\ isLoadingP = TRUE
  /\ isHighlightLoadingP = FALSE
  /\ docLoadP = "none"
  /\ numPagesP = 0
  /\ renderedPagesP = <<>>
  /\ loadP = 0
  /\ textItemsP = <<>>
  /\ imageAreasP = <<>>
  /\ drawnPageP = 0
  /\ drawnRectsP = <<>>
  /\ drawnFromP = 0
  /\ scrollsScheduledP = 0
  /\ LocIdle /\ WinIdle /\ SimIdle /\ CapIdle

\* fetchPresignedUrl gets response.success; the effect on [presignedUrl] then
\* calls loadPdfText, and the Document starts loading the file
PresignedUrlFetched ==
  /\ urlRequestP = "pending"
  /\ urlRequestP' = "done"
  /\ presignedUrlP' = "url"
  /\ isFetchingPDFP' = FALSE
  /\ isHighlightLoadingP' = TRUE
  /\ loadP' = focalP
  /\ docLoadP' = "loading"
  /\ UNCHANGED <<focalP, isLoadingP, numPagesP, renderedPagesP, textItemsP,
                 imageAreasP, drawnPageP, drawnRectsP, drawnFromP, scrollsScheduledP>>
  /\ UNCHANGED <<locVars, winVars, simVars, capVars>>

\* fetchPresignedUrl gets a response without success
PresignedUrlRefused ==
  /\ urlRequestP = "pending"
  /\ urlRequestP' = "done"
  /\ isLoadingP' = FALSE
  /\ isHighlightLoadingP' = FALSE
  /\ isFetchingPDFP' = FALSE
  /\ UNCHANGED <<focalP, presignedUrlP, docLoadP, numPagesP, renderedPagesP, loadP,
                 textItemsP, imageAreasP, drawnPageP, drawnRectsP, drawnFromP, scrollsScheduledP>>
  /\ UNCHANGED <<locVars, winVars, simVars, capVars>>

\* getPresignedUrl throws: the catch logs, the finally clears isFetchingPDF
PresignedUrlThrows ==
  /\ urlRequestP = "pending"
  /\ urlRequestP' = "done"
  /\ isFetchingPDFP' = FALSE
  /\ UNCHANGED <<focalP, presignedUrlP, isLoadingP, isHighlightLoadingP, docLoadP,
                 numPagesP, renderedPagesP, loadP, textItemsP, imageAreasP,
                 drawnPageP, drawnRectsP, drawnFromP, scrollsScheduledP>>
  /\ UNCHANGED <<locVars, winVars, simVars, capVars>>

\* onLoadSuccess of the Document
OnLoadSuccessP ==
  /\ docLoadP = "loading"
  /\ docLoadP' = "loaded"
  /\ numPagesP' = PreviewDocPages
  /\ isLoadingP' = CompletionEffect(numPagesP', renderedPagesP, isLoadingP)
  /\ scrollsScheduledP' = CompletionScrolls(numPagesP', renderedPagesP, scrollsScheduledP)
  /\ UNCHANGED <<focalP, urlRequestP, presignedUrlP, isFetchingPDFP,
                 isHighlightLoadingP, renderedPagesP, loadP, textItemsP,
                 imageAreasP, drawnPageP, drawnRectsP, drawnFromP>>
  /\ UNCHANGED <<locVars, winVars, simVars, capVars>>

\* onLoadError of the Document
OnLoadErrorP ==
  /\ docLoadP = "loading"
  /\ docLoadP' = "failed"
  /\ isLoadingP' = FALSE
  /\ isHighlightLoadingP' = FALSE
  /\ UNCHANGED <<focalP, urlRequestP, presignedUrlP, isFetchingPDFP, numPagesP,
                 renderedPagesP, loadP, textItemsP, imageAreasP, drawnPageP,
                 drawnRectsP, drawnFromP, scrollsScheduledP>>
  /\ UNCHANGED <<locVars, winVars, simVars, capVars>>

\* onRenderSuccess(page), then the effect on [numPages, renderedPages, pageNumber]
OnRenderSuccessP(page) ==
  /\ CanvasMounted(page)
  /\ renderedPagesP' = AddRendered(renderedPagesP, page)
  /\ isLoadingP' = CompletionEffect(numPagesP, renderedPagesP', isLoadingP)
  /\ scrollsScheduledP' = CompletionScrolls(numPagesP, renderedPagesP', scrollsScheduledP)
  /\ UNCHANGED <<focalP, urlRequestP, presignedUrlP, isFetchingPDFP,
                 isHighlightLoadingP, docLoadP, numPagesP, loadP, textItemsP,
                 imageAreasP, drawnPageP, drawnRectsP, drawnFromP>>
  /\ UNCHANGED <<locVars, winVars, simVars, capVars>>

\* the awaits of loadPdfText complete: setImageAreas, setTextItems, the
\* finally, then the effect on [textItems], which calls applyHighlight
LoadPdfTextResolves ==
  /\ loadP \in 1..PreviewDocPages
  /\ loadP' = 0
  /\ imageAreasP' = imageAreasP \o NewImageAreas(PreviewPageOperators(loadP))
  /\ LET items == PreviewPageItems(loadP)
     IN /\ textItemsP' = items
        /\ IF Len(items) # 0 /\ CanvasMounted(focalP)
           THEN /\ drawnPageP' = focalP
                /\ drawnRectsP' = ApplyHighlightRects(items, PreviewQuote, CanvasHeightPx)
                /\ drawnFromP' = loadP
           ELSE UNCHANGED <<drawnPageP, drawnRectsP, drawnFromP>>
  /\ isHighlightLoadingP' = FALSE
  /\ UNCHANGED <<focalP, urlRequestP, presignedUrlP, isFetchingPDFP, isLoadingP,
                 docLoadP, numPagesP, renderedPagesP, scrollsScheduledP>>
  /\ UNCHANGED <<locVars, winVars, simVars, capVars>>

\* the awaits of loadPdfText, in order
LoadPdfTextSteps == {"getDocument", "getPage", "getTextContent", "getOperatorList"}

\* a loadPdfText that stores the text items as soon as it has them
TextItemsAfterFailureEager(step, prev, fetched) ==
  IF step = "getOperatorList" THEN fetched ELSE prev

\* textItems after the await `step` has rejected: setImageAreas and
\* setTextItems come after the last await, so nothing was stored
TextItemsAfterFailure(step, prev, fetched) == prev

\* the await `step` of loadPdfText rejects: the catch logs, the finally
\* clears isHighlightLoading; the effect on [textItems] runs if textItems
\* was stored
LoadPdfTextRejectsAt(step) ==
  /\ loadP # 0
  /\ loadP' = 0
  /\ isHighlightLoadingP' = FALSE
  /\ LET items == TextItemsAfterFailure(step, textItemsP, PreviewPageItems(loadP))
     IN /\ textItemsP' = items
        /\ IF items # textItemsP /\ Len(items) # 0 /\ CanvasMounted(focalP)
           THEN /\ drawnPageP' = focalP
                /\ drawnRectsP' = ApplyHighlightRects(items, PreviewQuote, CanvasHeightPx)
                /\ drawnFromP' = loadP
           ELSE UNCHANGED <<drawnPageP, drawnRectsP, drawnFromP>>
  /\ UNCHANGED <<focalP, urlRequestP, presignedUrlP, isFetchingPDFP, isLoadingP,
                 docLoadP, numPagesP, renderedPagesP, imageAreasP,
                 scrollsScheduledP>>
  /\ UNCHANGED <<locVars, winVars, simVars, capVars>>

LoadPdfTextRejects == \E step \in LoadPdfTextSteps : LoadPdfTextRejectsAt(step)

\* the store names another focal page; the effect on [numPages,
\* renderedPages, pageNumber] runs again
FocalPageChanges(page) ==
  /\ page # focalP
  /\ focalP' = page
  /\ isLoadingP' = CompletionEffect(numPagesP, renderedPagesP, isLoadingP)
  /\ scrollsScheduledP' = CompletionScrolls(numPagesP, renderedPagesP, scrollsScheduledP)
  /\ UNCHANGED <<urlRequestP, presignedUrlP, isFetchingPDFP, isHighlightLoadingP,
                 docLoadP, numPagesP, renderedPagesP, loadP, textItemsP,
                 imageAreasP, drawnPageP, drawnRectsP, drawnFromP>>
  /\ UNCHANGED <<locVars, winVars, simVars, capVars>>

PreNext ==
  \/ PresignedUrlFetched
  \/ PresignedUrlRefused
  \/ PresignedUrlThrows
  \/ OnLoadSuccessP
  \/ OnLoadErrorP
  \/ \E page \in 1..PreviewDocPages : OnRenderSuccessP(page)
  \/ LoadPdfTextResolves
  \/ LoadPdfTextRejects
  \/ \E page \in PreviewFocalPages : FocalPageChanges(page)

SpecPreview == PreInit /\ [][PreNext]_vars

\* every request that was started completes, one way or the other, and every
\* page of a loaded document finishes painting; the store is not obliged to
\* change the focal page
PreFairness ==
  /\ WF_vars(PresignedUrlFetched \/ PresignedUrlRefused \/ PresignedUrlThrows)
  /\ WF_vars(OnLoadSuccessP \/ OnLoadErrorP)
  /\ WF_vars(LoadPdfTextRejects \/ LoadPdfTextResolves)
  /\ \A page \in 1..PreviewDocPages : WF_vars(OnRenderSuccessP(page))

SpecPreviewFair == SpecPreview /\ PreFairness


(***************************************************************************)
(* The progress caption of the loading overlay (server.js and PDFPreview), *)
(* as a function of renderedPages.length and numPages.                     *)
(***************************************************************************)
\* Math.round(num / den * scale) for num >= 0 and den > 0: the nearest
\* integer; a value exactly halfway is rounded up, or down when the double
\* arithmetic lands just below the half
RoundedValues(num, den, scale) ==
  LET up == (2 * scale * num + den) \div (2 * den)
  IN IF (2 * scale * num + den) % (2 * den) = 0 THEN {up - 1, up} ELSE {up}

\* Math.round((renderedPages.length / numPages) * 100): 0 / 0 is NaN
AllPagesCaptions(len, n) ==
  IF n = 0 THEN {NaN}
  ELSE {Number(r) : r \in RoundedValues(len, n, 100)}

\* a caption that shows the unscaled percentage
PreviewCaptionsUnscaled(len, n) ==
  IF len # 0 THEN {Number(r) : r \in RoundedValues(len, n, 100)} ELSE {Number(0)}

\* Math.round(renderedPages.length ? (renderedPages.length / numPages) * 95 : 0)
PreviewCaptions(len, n) ==
  IF len # 0 THEN {Number(r) : r \in RoundedValues(len, n, 95)} ELSE {Number(0)}

\* the overlay at mount: no document, no page rendered
CapInit ==
  /\ docPagesT \in 1..MaxCaptionPages
  /\ numPagesT = 0
  /\ renderedCountT = 0
  /\ captionAllT \in AllPagesCaptions(0, 0)
  /\ captionPreT \in PreviewCaptions(0, 0)
  /\ ApIdle
  /\ LocIdle /\ WinIdle /\ SimIdle /\ PreIdle

\* onLoadSuccess: numPages is set and the caption is rendered again
DocumentLoadsT ==
  /\ numPagesT = 0
  /\ numPagesT' = docPagesT
  /\ captionAllT' \in AllPagesCaptions(renderedCountT, numPagesT')
  /\ captionPreT' \in PreviewCaptions(renderedCountT, numPagesT')
  /\ UNCHANGED <<docPagesT, renderedCountT, apVars>>
  /\ UNCHANGED <<locVars, winVars, simVars, preVars>>

\* onRenderSuccess of a page not yet in renderedPages
PageReadyT ==
  /\ numPagesT > 0
  /\ renderedCountT < numPagesT
  /\ renderedCountT' = renderedCountT + 1
  /\ captionAllT' \in AllPagesCaptions(renderedCountT', numPagesT)
  /\ captionPreT' \in PreviewCaptions(renderedCountT', numPagesT)
  /\ UNCHANGED <<docPagesT, numPagesT, apVars>>
  /\ UNCHANGED <<locVars, winVars, simVars, preVars>>

\* onRenderSuccess of a page already in renderedPages: the same length and
\* page count give the same caption
PageReadyAgainT ==
  /\ renderedCountT > 0
  /\ UNCHANGED capVars
  /\ UNCHANGED <<locVars, winVars, simVars, preVars>>

CapNext == DocumentLoadsT \/ PageReadyT \/ PageReadyAgainT

SpecProgress == CapInit /\ [][CapNext]_vars


(***************************************************************************)
(* The windowed viewer with its render tracker, visibility observer and    *)
(* text fetches (the second App of App.tsx).                               *)
(***************************************************************************)
\* pdfPreviewParams.quote
WindowQuote == HelloWorld

\* page.getTextContent().items of a page: one line carrying the quote
WindowPageItems(page) == <<Item(HelloWorld, TRUE, page, 1, 2, 1)>>

\* a viewer that materializes every page of the document
PageSurfacesAllPages(pages, n) == 1..n

\* pageComponents: a wrapper with a Page and a canvas per page of the window
PageSurfaces(pages, n) == Range(pages)

\* drawHighlight: every item is filled, none is tested against an image
DrawHighlightAll(canvasHeight, items) ==
  [k \in 1..Len(items) |-> FlippedRect(items[k], canvasHeight)]

\* applyHighlight past its returns: the canvas is cleared, then holds what
\* drawHighlight fills
ApplyHighlightAll(items, quote, canvasHeight) ==
  LET bestMatch == FindBestMatch(PrepareTextLines(items), quote)
  IN IF Len(bestMatch.lines) = 0 THEN <<>>
     ELSE DrawHighlightAll(canvasHeight, Flat(bestMatch.lines))

\* the documents opened and the focal pages asked for
RenderDocPageCounts == {1, 3, 8}
RenderFocalPages == {1, 5}

\* the pages whose ready events are explored: the first, the focal and the
\* last page of the document
ReportingPages == {1, focalW, numPagesW} \cap 1..numPagesW

WrInit ==
  /\ \E docPages \in RenderDocPageCounts, focal \in RenderFocalPages :
        Mounted(docPages, focal)
  /\ LocIdle /\ SimIdle /\ PreIdle /\ CapIdle

\* onRenderSuccess(pageNumber) and the effects keyed on renderedPages: the
\* observer is disconnected and replaced by one that observes nothing yet,
\* and loadPdfText is called
OnRenderSuccessW(pageNumber, by) ==
  /\ renderedPagesW' = AddRendered(renderedPagesW, pageNumber)
  /\ observedW' = {}
  /\ fetchesW' = StartLoadPdfText(fetchesW)
  /\ lastReadyByW' = by
  /\ UNCHANGED <<docPagesW, focalW, numPagesW, isLoadingW, visiblePages,
                 seedPending, currentPage, textItemsW, drawsW, highlightsW>>
  /\ UNCHANGED <<locVars, simVars, preVars, capVars, dbVars>>

\* a Page of the window finishes painting
PageRendersW ==
  \E pageNumber \in PageSurfaces(visiblePages, numPagesW) \cap ReportingPages :
     OnRenderSuccessW(pageNumber, "page")

\* the IntersectionObserver callback, for one intersecting entry
ObserverFiresW ==
  \E pageNumber \in observedW \cap ReportingPages :
     IF pageNumber # 0 /\ pageNumber \notin Range(renderedPagesW)
     THEN OnRenderSuccessW(pageNumber, "observer")
     ELSE UNCHANGED vars

\* a loadPdfText call resolves: setTextItems, then the effect on [textItems]
\* runs applyHighlight, which draws when the focal page has a canvas
LoadPdfTextResolvesW ==
  /\ fetchesW > 0
  /\ focalW \in 1..docPagesW
  /\ fetchesW' = fetchesW - 1
  /\ textItemsW' = WindowPageItems(focalW)
  /\ IF Len(textItemsW') # 0
        /\ focalW \in PageSurfaces(visiblePages, numPagesW)
     THEN LET rects == ApplyHighlightAll(textItemsW', WindowQuote, CanvasHeightPx)
          IN /\ highlightsW' = rects
             /\ drawsW' = IF Len(rects) = 0 THEN drawsW
                          ELSE Min(MaxDrawsCounted, drawsW + 1)
     ELSE UNCHANGED <<highlightsW, drawsW>>
  /\ UNCHANGED <<docPagesW, focalW, numPagesW, isLoadingW, visiblePages,
                 seedPending, currentPage, renderedPagesW, observedW,
                 lastReadyByW>>
  /\ UNCHANGED <<locVars, simVars, preVars, capVars, dbVars>>

\* a loadPdfText call rejects (the download fails, or the document has no
\* such page): nothing catches it and no state is set
LoadPdfTextRejectsW ==
  /\ fetchesW > 0
  /\ fetchesW' = fetchesW - 1
  /\ UNCHANGED <<docPagesW, focalW, numPagesW, isLoadingW, visiblePages,
                 seedPending, currentPage, renderedPagesW, observedW,
                 textItemsW, drawsW, highlightsW, lastReadyByW>>
  /\ UNCHANGED <<locVars, simVars, preVars, capVars, dbVars>>

WrNext ==
  \/ OnLoadSuccessW
  \/ SeedWindow
  \/ HandleScroll
  \/ PageRendersW
  \/ ObserverFiresW
  \/ LoadPdfTextResolvesW
  \/ LoadPdfTextRejectsW

SpecWindowRender == WrInit /\ [][WrNext]_vars


(***************************************************************************)
(* The scroll listener of the windowed viewer: handleScroll is the body    *)
(* below wrapped in lodash's debounce(fn, 200), trailing edge only.        *)
(***************************************************************************)
\* debounce(..., 200)
DebounceWaitMs == 200

\* time advances in steps of TickMs
TickMs == DebounceWaitMs \div TicksPerWait

\* a timer that invokes the handler whenever it expires
ShouldInvokeAlways(sinceCall) == TRUE

\* shouldInvoke of debounce, at timer expiry: the wait has passed since the
\* last call
ShouldInvoke(sinceCall) == sinceCall >= DebounceWaitMs

\* remainingWait of debounce
RemainingWait(sinceCall) == DebounceWaitMs - sinceCall

\* the documents opened and the focal pages asked for
ScrollDocPageCounts == {3, 12}
ScrollFocalPages == {1}

DbInit ==
  /\ \E docPages \in ScrollDocPageCounts, focal \in ScrollFocalPages :
        Mounted(docPages, focal)
  /\ LocIdle /\ SimIdle /\ PreIdle /\ CapIdle

\* a scroll event on the container: the listener calls the debounced
\* handleScroll, which records the call and starts the timer if none is set
ScrollEvent(position) ==
  /\ visiblePages # <<>>
  /\ position # scrollTopD
  /\ scrollTopD' = position
  /\ sinceCallD' = 0
  /\ IF timerLeftD = -1
     THEN /\ timerLeftD' = DebounceWaitMs
          /\ burstCallsD' = 1
          /\ burstRunsD' = 0
     ELSE /\ burstCallsD' = Min(MaxBurstCalls, burstCallsD + 1)
          /\ UNCHANGED <<timerLeftD, burstRunsD>>
  /\ UNCHANGED <<docPagesW, focalW, numPagesW, isLoadingW, visiblePages,
                 seedPending, currentPage, trkVars>>
  /\ UNCHANGED <<locVars, simVars, preVars, capVars>>

\* TickMs pass while the timer is set and not yet due
Tick ==
  /\ timerLeftD >= TickMs
  /\ timerLeftD' = timerLeftD - TickMs
  /\ sinceCallD' = sinceCallD + TickMs
  /\ UNCHANGED <<scrollTopD, burstCallsD, burstRunsD>>
  /\ UNCHANGED <<docPagesW, focalW, numPagesW, isLoadingW, visiblePages,
                 seedPending, currentPage, trkVars>>
  /\ UNCHANGED <<locVars, simVars, preVars, capVars>>

\* timerExpired of debounce: the handler body runs at the current scroll
\* position if the wait has passed since the last call, else the timer is
\* set again for the rest of the wait
TimerExpires ==
  /\ timerLeftD = 0
  /\ IF ShouldInvoke(sinceCallD)
     THEN /\ timerLeftD' = -1
          /\ burstRunsD' = burstRunsD + 1
          /\ \E pageHeight \in PageHeights : HandleScrollAt(scrollTopD, pageHeight)
          /\ UNCHANGED <<scrollTopD, sinceCallD, burstCallsD>>
     ELSE /\ timerLeftD' = RemainingWait(sinceCallD)
          /\ UNCHANGED <<scrollTopD, sinceCallD, burstCallsD, burstRunsD>>
          /\ UNCHANGED <<docPagesW, focalW, numPagesW, isLoadingW, visiblePages,
                         seedPending, currentPage, trkVars>>
          /\ UNCHANGED <<locVars, simVars, preVars, capVars>>

DbNext ==
  \/ OnLoadSuccessW
  \/ SeedWindow
  \/ \E position \in ScrollPositions : ScrollEvent(position)
  \/ Tick
  \/ TimerExpires

SpecScroll == DbInit /\ [][DbNext]_vars


(***************************************************************************)
(* The all-pages viewer (the App of server.js): page-ready events and the  *)
(* fetch of the focal page's text.                                         *)
(***************************************************************************)
\* pdfPreviewParams.pageNumber and pdfPreviewParams.quote
AllPagesFocalPage == 3
AllPagesQuote == HelloWorld

\* textContent.items of the focal page: one line carrying the quote
AllPagesItems == <<Item(HelloWorld, TRUE, 1, 1, 2, 1)>>

\* the effect on [numPages, renderedPages, pageNumber], as the new count of
\* loadPdfText calls awaiting: a call starts when the focal page is in
\* renderedPages and textItems is still empty
FetchTrigger(rendered, items, inFlight) ==
  IF AllPagesFocalPage \in Range(rendered) /\ Len(items) = 0
  THEN inFlight + 1
  ELSE inFlight

\* the viewer is mounted with the Document loading
ApInit ==
  /\ ApIdle
  /\ docPagesT = 0
  /\ numPagesT = 0
  /\ renderedCountT = 0
  /\ captionAllT = Number(0)
  /\ captionPreT = Number(0)
  /\ LocIdle /\ WinIdle /\ SimIdle /\ PreIdle

\* onLoadSuccess: setNumPages, then the effect on [numPages, renderedPages, ...]
OnLoadSuccessA ==
  /\ numPagesA = 0
  /\ numPagesA' = AllPagesDocPages
  /\ inFlightA' = FetchTrigger(renderedPagesA, textItemsA, inFlightA)
  /\ UNCHANGED <<renderedPagesA, textItemsA, highlightsA>>
  /\ UNCHANGED <<docPagesT, numPagesT, renderedCountT, captionAllT, captionPreT>>
  /\ UNCHANGED <<locVars, winVars, simVars, preVars>>

\* onRenderSuccess(pageNumber) of a page that reports for the first time:
\* setRenderedPages, then the effect on [numPages, renderedPages, ...]
OnRenderSuccessA(pageNumber) ==
  /\ pageNumber \in 1..numPagesA
  /\ pageNumber \notin Range(renderedPagesA)
  /\ renderedPagesA' = Dedup(Append(renderedPagesA, pageNumber), <<>>)
  /\ inFlightA' = FetchTrigger(renderedPagesA', textItemsA, inFlightA)
  /\ UNCHANGED <<numPagesA, textItemsA, highlightsA>>
  /\ UNCHANGED <<docPagesT, numPagesT, renderedCountT, captionAllT, captionPreT>>
  /\ UNCHANGED <<locVars, winVars, simVars, preVars>>

\* the awaits of a loadPdfText call complete: setTextItems, then the effect on
\* [textItems] calls applyHighlight (the focal page's canvas is mounted)
LoadPdfTextResolvesA ==
  /\ inFlightA > 0
  /\ inFlightA' = inFlightA - 1
  /\ textItemsA' = AllPagesItems
  /\ highlightsA' = ApplyHighlightAll(AllPagesItems, AllPagesQuote, CanvasHeightPx)
  /\ UNCHANGED <<numPagesA, renderedPagesA>>
  /\ UNCHANGED <<docPagesT, numPagesT, renderedCountT, captionAllT, captionPreT>>
  /\ UNCHANGED <<locVars, winVars, simVars, preVars>>

\* an await of a loadPdfText call rejects: nothing catches it, no state is set
LoadPdfTextRejectsA ==
  /\ inFlightA > 0
  /\ inFlightA' = inFlightA - 1
  /\ UNCHANGED <<numPagesA, renderedPagesA, textItemsA, highlightsA>>
  /\ UNCHANGED <<docPagesT, numPagesT, renderedCountT, captionAllT, captionPreT>>
  /\ UNCHANGED <<locVars, winVars, simVars, preVars>>

ApNext ==
  \/ OnLoadSuccessA
  \/ \E pageNumber \in 1..AllPagesDocPages : OnRenderSuccessA(pageNumber)
  \/ LoadPdfTextResolvesA
  \/ LoadPdfTextRejectsA

SpecAllPages == ApInit /\ [][ApNext]_vars


(***************************************************************************)
(* Claims about the locator (checked under SpecLocate).                    *)
(***************************************************************************)
LinesIn == PrepareTextLines(textItemsIn)
LenientDone == stage \in {"lenient", "strict", "highlighted"}
StrictDone == stage \in {"strict", "highlighted"}
HighlightDone == stage = "highlighted"

\* the single-space concatenation of the lower-cased trimmed text of lines a..b
RECURSIVE JoinLines(_, _, _)
JoinLines(lines, a, b) ==
  IF a = b THEN Normalize(GetTextSegment(lines[a]))
  ELSE JoinLines(lines, a, b - 1) \o <<" ">> \o Normalize(GetTextSegment(lines[b]))

Spans(lines) == {s \in (1..Len(lines)) \X (1..Len(lines)) : s[1] <= s[2]}

\* span s is scored by the enumeration: no shorter span from the same start
\* is longer than 1.5 times the quote
Reached(lines, quote, s) ==
  \A k \in s[1]..(s[2] - 1) :
     ~(2 * Len(JoinLines(lines, s[1], k)) > 3 * Len(Normalize(quote)))

ReachedSpans(lines, quote) == {s \in Spans(lines) : Reached(lines, quote, s)}

SpanScore(lines, quote, s) ==
  CompareTwoStrings(JoinLines(lines, s[1], s[2]), Normalize(quote))

\* enumeration order: smaller i first, then smaller j
Before(s, t) == s[1] < t[1] \/ (s[1] = t[1] /\ s[2] < t[2])

IsSpan(result, lines, s) == result.lines = SubSeq(lines, s[1], s[2])

ExactSpans == {s \in Spans(LinesIn) : quoteIn = JoinLines(LinesIn, s[1], s[2])}

IsBestOf(r, candidates, lines, quote) ==
  /\ r \in candidates
  /\ \A e \in candidates :
        /\ ~ScoreGreater(SpanScore(lines, quote, e), SpanScore(lines, quote, r))
        /\ Before(e, r) => ScoreGreater(SpanScore(lines, quote, r), SpanScore(lines, quote, e))

AboveThreshold(lines, quote) ==
  {s \in ReachedSpans(lines, quote) : ScoreGreater(SpanScore(lines, quote, s), Threshold)}

\* the lenient locator returns the best scored span, the earliest among equal
\* scores, with its score (this half of C7 holds)
LenientReturnsBest ==
  (LenientDone /\ Len(LinesIn) > 0) =>
     \E r \in ReachedSpans(LinesIn, quoteIn) :
        /\ IsBestOf(r, ReachedSpans(LinesIn, quoteIn), LinesIn, quoteIn)
        /\ IsSpan(lenientOut, LinesIn, r)
        /\ ScoreEqual(lenientOut.score, SpanScore(LinesIn, quoteIn, r))

\* C7 as stated, without its tie-break: the score each locator returns is the
\* maximum over the spans it scored (for the thresholded locator, over the
\* scored spans above the threshold)
C7_BestScoreReturned ==
  /\ LenientDone =>
       \A e \in ReachedSpans(LinesIn, quoteIn) :
          ~ScoreGreater(SpanScore(LinesIn, quoteIn, e), lenientOut.score)
  /\ StrictDone =>
       \A e \in AboveThreshold(LinesIn, quoteIn) :
          ~ScoreGreater(SpanScore(LinesIn, quoteIn, e), strictOut.score)

\* C8: for a page with no lines both locators return score -1 and no lines,
\* whatever the quote
C8_EmptyPageNoMatch ==
  Len(LinesIn) = 0 =>
     /\ LenientDone => lenientOut = [score |-> Score(-1, 1), lines |-> <<>>]
     /\ StrictDone => strictOut = [score |-> Score(-1, 1), lines |-> <<>>]

\* C8 witness: both locators have run on an empty page with the empty quote
C8_Witness ==
  /\ StrictDone
  /\ textItemsIn = <<>>
  /\ quoteIn = <<>>
  /\ strictOut.lines = <<>>

\* C9: the lenient locator returns a non-empty span for every page with a
\* line; the thresholded locator returns a span only if a scored span is above
\* the threshold, and otherwise score -1 and no lines, and applyHighlight then
\* fills no rectangle
C9_TwoAcceptanceModes ==
  /\ (LenientDone /\ Len(LinesIn) > 0) => Len(lenientOut.lines) > 0
  /\ StrictDone =>
       /\ Len(strictOut.lines) > 0 => AboveThreshold(LinesIn, quoteIn) # {}
       /\ AboveThreshold(LinesIn, quoteIn) = {} =>
             strictOut = [score |-> Score(-1, 1), lines |-> <<>>]
  /\ (HighlightDone /\ AboveThreshold(LinesIn, quoteIn) = {}) => rectsOut = <<>>

\* C9 witness: a page with lines and a quote no span matches above the
\* threshold: the lenient locator returned a span, the thresholded one none,
\* and applyHighlight ran
C9_Witness ==
  /\ HighlightDone
  /\ Len(LinesIn) > 1
  /\ Len(lenientOut.lines) > 0
  /\ ScoreGreater(lenientOut.score, ScoreZero)
  /\ strictOut.lines = <<>>
  /\ rectsOut = <<>>


(***************************************************************************)
(* Claims about the window manager (checked under SpecWindow).             *)
(***************************************************************************)
\* the PageWindow as a set
Window == Range(visiblePages)

\* the pages of an n-page document within PAGES_TO_LOAD of a centre
PageRange(center, n) ==
  {p \in 1..n : center - PAGES_TO_LOAD <= p /\ p <= center + PAGES_TO_LOAD}

\* the centres handleScroll hands to loadVisiblePages at current page cur
CentresOf(cur, n) ==
  {cur} \cup (IF cur - PAGES_TO_LOAD <= 1 THEN {1}
              ELSE IF cur + PAGES_TO_LOAD >= n THEN {n}
              ELSE {})

\* the step is handleScroll computing current page cur
ScrollsTo(cur) ==
  \E scrollPosition \in ScrollPositions :
     /\ PageHeightPx \in PageHeights
     /\ CurrentPageAt(scrollPosition, PageHeightPx) = cur
     /\ HandleScrollAt(scrollPosition, PageHeightPx)

\* the seed has run on an opened document
Seeded == numPagesW > 0 /\ ~seedPending

\* C2: the PageWindow is insertion-only: no step of the viewer (seed or
\* scroll-driven expand) removes a page index from visiblePages.
C2_WindowInsertionOnly == [][Window \subseteq Window']_vars

\* C2 witness: an expand has added pages outside the seeded range to a
\* non-empty seeded window, which is still there.
C2_Witness ==
  /\ Seeded
  /\ currentPage > 0
  /\ PageRange(focalW, numPagesW) # {}
  /\ PageRange(focalW, numPagesW) \subseteq Window
  /\ Window \ PageRange(focalW, numPagesW) # {}
  /\ PageRange(currentPage, numPagesW) \cap PageRange(focalW, numPagesW) = {}

\* C3 as stated: with 100 pages, seeding at focal page 50 yields exactly
\* {45..55} and a subsequent expand with currentPage = 1 yields exactly {1..55}.
C3_ScenarioD ==
  [][(numPagesW = 100 /\ focalW = 50) =>
       /\ SeedWindow => Window' = 45..55
       /\ (Window = 45..55 /\ ScrollsTo(1)) => Window' = 1..55]_vars

\* C3 amended: with 100 pages, seeding at focal page 50 yields exactly
\* {45..55}, and a subsequent expand with currentPage = 1 inserts pages 1..6
\* only, yielding exactly {1..6} \cup {45..55}.
C3_ScenarioDInsertsRangeOnly ==
  [][(numPagesW = 100 /\ focalW = 50) =>
       /\ SeedWindow => Window' = 45..55
       /\ (Window = 45..55 /\ ScrollsTo(1)) => Window' = (1..6) \cup (45..55)]_vars

\* C3 witness: the 100-page document seeded at 50 and then scrolled to
\* current page 1, pages 7..44 still not materialized.
C3_Witness ==
  /\ numPagesW = 100
  /\ focalW = 50
  /\ currentPage = 1
  /\ Window = (1..6) \cup (45..55)

\* C4: every loadVisiblePages(center) inserts exactly the pages
\* max(1, center-5) .. min(numPages, center+5) into the window: the seed
\* inserts the focal page's range, a scroll the ranges of the centres it
\* loads; seeding 10 pages at focal page 5 yields {1..10}; a centre whose
\* range is empty inserts nothing.
C4_RangeInserted ==
  [][/\ (SeedWindow /\ numPagesW > 0) =>
          /\ Window' = Window \cup PageRange(focalW, numPagesW)
          /\ (numPagesW = 10 /\ focalW = 5) => Window' = 1..10
          /\ focalW - PAGES_TO_LOAD > numPagesW => visiblePages' = visiblePages
     /\ \A cur \in 1..(MaxScrollTop + 1) :
          ScrollsTo(cur) =>
             Window' = Window \cup
                UNION {PageRange(c, numPagesW) : c \in CentresOf(cur, numPagesW)}]_vars

\* C4 witness: the 10-page document seeded at focal page 5, all ten pages
\* in the window before any scroll.
C4_Witness ==
  /\ numPagesW = 10
  /\ focalW = 5
  /\ Seeded
  /\ currentPage = 0
  /\ Window = 1..10

\* C5: after a scroll-driven expand at current page c, page 1 is in the
\* window when c - 5 <= 1 and the last page is in the window when
\* c + 5 >= numPages, also when both hold or c is past the last page.
C5_ForceExpansion ==
  currentPage > 0 =>
     /\ currentPage - PAGES_TO_LOAD <= 1 => 1 \in Window
     /\ currentPage + PAGES_TO_LOAD >= numPagesW => numPagesW \in Window

\* C5 witness: a scroll whose current page lies more than five pages past
\* the end of a 12-page document seeded at page 1, the last page in the window.
C5_Witness ==
  /\ numPagesW = 12
  /\ focalW = 1
  /\ currentPage > numPagesW + PAGES_TO_LOAD
  /\ numPagesW \in Window


(***************************************************************************)
(* Claims about the asynchronous pipeline (SpecSimple, SpecPreview).       *)
(***************************************************************************)
\* C1: latest-request-wins in the single-page viewer: when the result of a
\* highlightTextInPage call for a page other than the current, valid
\* pageNumber arrives, it is discarded: highlights is left as it was.
C1_LateResultDiscarded ==
  [][\A i \in 1..MaxInFlight :
        (/\ pageNumberS \in 1..numPagesS
         /\ HighlightFetchResolves(i)
         /\ requestsS[i] # pageNumberS) => highlightsS' = highlightsS]_vars

\* the rectangles on the focal canvas overlap no stored image area
NoRectOverImage ==
  \A k \in 1..Len(drawnRectsP) :
     ~IntersectsWithImage(drawnRectsP[k], imageAreasP)

\* C10: no rectangle that drawHighlight has filled on the page's canvas
\* overlaps an image area that loadPdfText derived from the same page's
\* paint-image operators.
C10_NoHighlightOverImage ==
  (drawnPageP # 0 /\ drawnFromP = drawnPageP) => NoRectOverImage


(***************************************************************************)
(* Claims about the projection (checked under SpecLocate).                 *)
(***************************************************************************)
\* the tokens of the span applyHighlight hands to drawHighlight
MatchedTokens == Flat(strictOut.lines)

\* the rectangle the claim gives for a token on a page pageHeightPx high
ProjectedRect(token, pageHeightPx) ==
  [x |-> token.x, y |-> pageHeightPx - token.y - token.height,
   width |-> token.width, height |-> token.height]

\* the matched tokens whose rectangle survives the image test drawHighlight makes
SurvivingTokens ==
  {k \in 1..Len(MatchedTokens) :
     ~IntersectsWithImage(ProjectedRect(MatchedTokens[k], canvasHeightIn),
                          DrawHighlightImageAreas)}

\* f lists the surviving tokens in token order, one index per rectangle
ListsSurvivors(f) ==
  /\ {f[k] : k \in 1..Len(rectsOut)} = SurvivingTokens
  /\ \A k1, k2 \in 1..Len(rectsOut) : k1 < k2 => f[k1] < f[k2]

\* C11: every surviving matched token yields exactly one rectangle, with
\* x = origin.x, y = pageHeightPx - origin.y - height and the token's width
\* and height; rectangles come in token order, none merged; the token at
\* (10, 700) of size 50 x 12 on a 792-pixel page is drawn at y = 80.
C11_ProjectionFlip ==
  HighlightDone =>
     /\ Len(rectsOut) = Cardinality(SurvivingTokens)
     /\ \E f \in [1..Len(rectsOut) -> 1..Len(MatchedTokens)] :
           /\ ListsSurvivors(f)
           /\ \A k \in 1..Len(rectsOut) :
                 rectsOut[k] = ProjectedRect(MatchedTokens[f[k]], canvasHeightIn)
     /\ (textItemsIn = ScenarioE.items /\ quoteIn = ScenarioE.quote
           /\ canvasHeightIn = 792) =>
           (Len(rectsOut) = 1 /\ rectsOut[1].y = 80)

\* C11 witness: the token at (10, 700) of size 50 x 12 has been highlighted
\* on the 792-pixel page.
C11_Witness ==
  /\ HighlightDone
  /\ canvasHeightIn = 792
  /\ rectsOut = <<[x |-> 10, y |-> 80, width |-> 50, height |-> 12]>>


(***************************************************************************)
(* Claims about the render tracker of PDFPreview (checked under            *)
(* SpecPreview).                                                           *)
(***************************************************************************)
\* the RenderedSet
Rendered == Range(renderedPagesP)

\* the pages a page-ready event can name
ReadyPages == 1..PreviewDocPages

\* C12: onRenderSuccess is idempotent: from every reachable renderedPages
\* and for every page n, applying onRenderSuccess(n) again after the first
\* time changes nothing; the first application adds n and nothing else, and
\* the array holds no page twice.
C12_RenderSuccessIdempotent ==
  \A n \in ReadyPages :
     LET once == AddRendered(renderedPagesP, n)
         twice == AddRendered(once, n)
     IN /\ twice = once
        /\ AddRendered(twice, n) = once
        /\ Range(once) = Rendered \cup {n}
        /\ Len(once) = Cardinality(Range(once))

\* C12 witness: every page of the document has reported ready and the
\* completion effect has run again since (a second scroll timer was set).
C12_Witness ==
  /\ Len(renderedPagesP) = PreviewDocPages
  /\ Rendered = ReadyPages
  /\ scrollsScheduledP >= 2

\* C13: the render tracker is order-independent: from every reachable
\* renderedPages, two page-ready events give the same members and the same
\* size in either arrival order, hence the same completion and the same
\* isLoading.
C13_RenderOrderIndependent ==
  \A a, b \in ReadyPages :
     LET ab == AddRendered(AddRendered(renderedPagesP, a), b)
         ba == AddRendered(AddRendered(renderedPagesP, b), a)
     IN /\ Range(ab) = Range(ba)
        /\ Len(ab) = Len(ba)
        /\ (Len(ab) = numPagesP) = (Len(ba) = numPagesP)
        /\ CompletionEffect(numPagesP, ab, isLoadingP)
             = CompletionEffect(numPagesP, ba, isLoadingP)

\* C13 witness: the pages reported ready out of index order and the
\* document is complete.
C13_Witness ==
  /\ renderedPagesP = <<2, 1>>
  /\ numPagesP = PreviewDocPages
  /\ ~isLoadingP

\* C17: once a scroll to the focal page has been scheduled, no later step
\* that leaves the focal page unchanged schedules another one.
C17_OneScrollScheduled ==
  [][(scrollsScheduledP >= 1 /\ focalP' = focalP) =>
        scrollsScheduledP' = scrollsScheduledP]_vars

\* C19: loadPdfText is started only in a state where the focal page is in
\* renderedPages.
C19_FetchAfterFocalReady ==
  [][(loadP = 0 /\ loadP' # 0) => focalP \in Rendered]_vars


(***************************************************************************)
(* Claims about the progress caption (checked under SpecProgress).         *)
(***************************************************************************)
\* every page of the loaded document is rendered
CompleteT == numPagesT > 0 /\ renderedCountT = numPagesT

CaptionsNeverDecrease ==
  [][numPagesT > 0 =>
       /\ captionAllT'.v >= captionAllT.v
       /\ captionPreT'.v >= captionPreT.v]_vars

\* on a loaded document each caption is at its full value, 100 in the
\* all-pages viewer and 95 in PDFPreview, when every page is rendered, and
\* before that only when the rounding reaches it
FullValueAtComplete ==
  numPagesT > 0 =>
     /\ ~captionAllT.nan /\ ~captionPreT.nan
     /\ captionAllT.v \in 0..100
     /\ captionPreT.v \in 0..95
     /\ CompleteT => (captionAllT.v = 100 /\ captionPreT.v = 95)
     /\ (captionAllT.v = 100 /\ ~CompleteT) =>
           200 * (numPagesT - renderedCountT) <= numPagesT
     /\ (captionPreT.v = 95 /\ ~CompleteT) =>
           190 * (numPagesT - renderedCountT) <= numPagesT

C16_ZeroProgressBeforeLoad ==
  numPagesT = 0 =>
     /\ captionAllT = Number(0)
     /\ captionPreT = Number(0)


(***************************************************************************)
(* Claims about the windowed viewer's render tracker, loading flag and     *)
(* text fetches (checked under SpecWindowRender).                          *)
(***************************************************************************)
\* C14: in the windowed viewer every page in renderedPages is a page of the
\* window (visiblePages), whether a Page's render callback or the visibility
\* observer put it there.
C14_RenderedWithinWindow == Range(renderedPagesW) \subseteq Range(visiblePages)

\* C14's case: page 1 was reported by its Page, the window then grew to the
\* last page of an 8-page document, and the observer reported that page
C14_Witness ==
  /\ renderedPagesW = <<1, 8>>
  /\ lastReadyByW = "observer"
  /\ Range(visiblePages) = 1..8

\* C18: while a successfully opened document has fewer ready pages than
\* pages, isLoading is true.
C18_LoadingUntilAllRendered ==
  (numPagesW > 0 /\ Len(renderedPagesW) < numPagesW) => isLoadingW

\* the highlight rectangles are on the focal page's canvas
Published == drawsW >= 1

\* C20: once the highlights are published, no step starts another
\* loadPdfText call or draws again; the focal page and the quote never
\* change in this viewer, so page-ready events and window growth are all
\* that is left.
C20_NoFetchAfterReady ==
  [][Published => (fetchesW' <= fetchesW /\ drawsW' = drawsW)]_vars

(***************************************************************************)
(* Claims about PDFPreview's error handling (checked under SpecPreview).   *)
(***************************************************************************)
\* fetchPresignedUrl has completed without storing a URL
RetrievalFailed == urlRequestP = "done" /\ presignedUrlP = ""

\* the condition under which the loading overlay is rendered
OverlayShown == isLoadingP \/ isHighlightLoadingP \/ isFetchingPDFP

\* C21: whenever the presigned-URL retrieval has failed, by a response
\* without success or by a thrown error, isLoading, isHighlightLoading and
\* isFetchingPDF are all false once fetchPresignedUrl has completed, so the
\* loading overlay is not shown.
C21_RetrievalFailureClearsOverlay == RetrievalFailed => ~OverlayShown

\* the document could not be opened: the retrieval failed or the Document
\* reported a load error
OpenFailed == RetrievalFailed \/ docLoadP = "failed"

\* C22: a document-open failure is terminal and not retried: from a state
\* where the retrieval has failed or the Document has reported a load error,
\* no step attempts the retrieval again or changes the Document's outcome,
\* no step starts a loadPdfText call, numPages is and stays 0, and the focal
\* canvas holds and gets no highlight.
C22_OpenFailureTerminal ==
  [][OpenFailed =>
       /\ OpenFailed'
       /\ urlRequestP' = urlRequestP /\ presignedUrlP' = presignedUrlP
       /\ docLoadP' = docLoadP
       /\ ~(loadP = 0 /\ loadP' # 0)
       /\ numPagesP = 0 /\ numPagesP' = 0
       /\ drawnPageP = 0 /\ drawnPageP' = 0
       /\ drawnRectsP' = <<>>]_vars

\* C22's case: the Document reported a load error and the loadPdfText call
\* started before it has since resolved; nothing was drawn
C22_Witness ==
  /\ docLoadP = "failed"
  /\ loadP = 0
  /\ textItemsP # <<>>
  /\ drawnPageP = 0
  /\ numPagesP = 0

\* C23: a page fetch error is local: when loadPdfText fails at any of its
\* awaits, textItems and imageAreas are left as they were, nothing is drawn
\* or cleared on the focal canvas, isHighlightLoading ends false, and
\* numPages and renderedPages are unaffected.
C23_FetchErrorLocal ==
  [][\A step \in LoadPdfTextSteps :
        LoadPdfTextRejectsAt(step) =>
          /\ textItemsP' = textItemsP
          /\ imageAreasP' = imageAreasP
          /\ drawnPageP' = drawnPageP /\ drawnRectsP' = drawnRectsP
          /\ ~isHighlightLoadingP'
          /\ numPagesP' = numPagesP
          /\ renderedPagesP' = renderedPagesP]_vars

\* C23's case: the fetch for the focal page has failed, and every page of
\* the document has rendered all the same
C23_Witness ==
  /\ presignedUrlP # ""
  /\ loadP = 0
  /\ textItemsP = <<>>
  /\ ~isHighlightLoadingP
  /\ docLoadP = "loaded"
  /\ Len(renderedPagesP) = numPagesP
  /\ drawnPageP = 0

(***************************************************************************)
(* Claims about the windowed viewer's observer and scroll handler          *)
(* (checked under SpecWindowRender).                                       *)
(***************************************************************************)
\* C24: every materialized page surface (every page of visiblePages) is
\* observed by the current visibility observer, after any interleaving of
\* window expansions and page-ready events.
C24_SurfacesObserved == PageSurfaces(visiblePages, numPagesW) \subseteq observedW

\* the handler body runs in this step
HandlerRuns == timerLeftD = 0 /\ timerLeftD' = -1

\* C25: scroll handling is trailing-debounced. The handler body runs only
\* when DebounceWaitMs have passed since the last scroll event, exactly that
\* long after it, and at most once per burst; when it runs, currentPage is
\* floor(scrollTop / pageHeight) + 1 of the settled position and expand is
\* applied to it (or the body returns at its page-height test); no other
\* step, and so no intermediate position of the burst, changes currentPage
\* or the window once it is seeded.
C25_TrailingDebounce ==
  [][/\ HandlerRuns =>
          /\ sinceCallD = DebounceWaitMs
          /\ burstRunsD = 0 /\ burstRunsD' = 1
          /\ \/ UNCHANGED <<currentPage, visiblePages>>
             \/ /\ currentPage' = CurrentPageAt(scrollTopD, PageHeightPx)
                /\ visiblePages' = Expand(visiblePages, currentPage', numPagesW)
     /\ (~HandlerRuns /\ visiblePages # <<>>) =>
          UNCHANGED <<currentPage, visiblePages>>
     /\ timerLeftD' # -1 => burstRunsD' = 0
     /\ (timerLeftD' = -1 /\ burstCallsD' > 0) => burstRunsD' = 1]_vars

\* C25's case: a burst of at least three scroll events has ended and was
\* processed once, at its last position, which lies beyond the first page
C25_Witness ==
  /\ burstCallsD = MaxBurstCalls
  /\ burstRunsD = 1
  /\ timerLeftD = -1
  /\ currentPage = CurrentPageAt(scrollTopD, PageHeightPx)
  /\ currentPage > 1

(***************************************************************************)
(* Claims about line grouping, the search bound and the image test         *)
(* (checked under SpecLocate).                                             *)
(***************************************************************************)
\* C26: the lines of prepareTextLines partition the token list: their
\* concatenation, in order, is the token list; no line is empty; a token
\* with hasEOL is the last token of its line; every line but possibly the
\* last ends with a hasEOL token.
C26_LinesPartitionTokens ==
  LET lines == PrepareTextLines(textItemsIn)
  IN /\ Flat(lines) = textItemsIn
     /\ \A k \in 1..Len(lines) :
          /\ Len(lines[k]) > 0
          /\ \A m \in 1..Len(lines[k]) : lines[k][m].hasEOL => m = Len(lines[k])
          /\ k < Len(lines) => lines[k][Len(lines[k])].hasEOL

\* C26's case: four tokens grouped into a two-token line, a one-token line
\* and a last line that no hasEOL ends
C26_Witness ==
  /\ LenientDone
  /\ Len(textItemsIn) = 4
  /\ Len(LinesIn) = 3
  /\ Len(LinesIn[1]) = 2
  /\ ~LinesIn[3][1].hasEOL

\* C27: for each start line the locator stops growing the span once the
\* combined text is longer than 1.5 times the normalized quote: span (i, j)
\* is scored iff no shorter span from i is longer than that, and a span
\* either locator returns has no such proper prefix span.
C27_SearchBound ==
  /\ ScoredSpans(LinesIn, quoteIn) = ReachedSpans(LinesIn, quoteIn)
  /\ (LenientDone /\ Len(lenientOut.lines) > 0) =>
        \E s \in ReachedSpans(LinesIn, quoteIn) : IsSpan(lenientOut, LinesIn, s)
  /\ (StrictDone /\ Len(strictOut.lines) > 0) =>
        \E s \in ReachedSpans(LinesIn, quoteIn) : IsSpan(strictOut, LinesIn, s)

\* C27's case: from the first of at least three lines the two-line span is
\* scored and exceeds the bound, so the three-line span is not scored
C27_Witness ==
  /\ StrictDone
  /\ Len(LinesIn) >= 3
  /\ <<1, 2>> \in ScoredSpans(LinesIn, quoteIn)
  /\ <<1, 3>> \notin ScoredSpans(LinesIn, quoteIn)
  /\ 2 * Len(JoinLines(LinesIn, 1, 2)) > 3 * Len(Normalize(quoteIn))

\* the length of the intersection of [a, a + la] and [b, b + lb]
CommonLength(a, la, b, lb) == Min(a + la, b + lb) - Max(a, b)

\* the x-ranges and the y-ranges both intersect with positive length
PositiveOverlap(r, area) ==
  /\ CommonLength(r.x, r.width, area.x, area.width) > 0
  /\ CommonLength(r.y, r.height, area.y, area.height) > 0

HasMatch(items) ==
  Len(FindBestMatchThreshold(PrepareTextLines(items), PreviewQuote).lines) > 0

\* the retrieval, the document open and the token fetch for focal page f
\* have all succeeded, and a span of the page matches the quote
AllSucceeded(f) ==
  /\ focalP = f
  /\ presignedUrlP # ""
  /\ docLoadP = "loaded"
  /\ loadP = 0
  /\ textItemsP # <<>> /\ textItemsP = PreviewPageItems(f)
  /\ HasMatch(textItemsP)

\* highlight rectangles are on the canvas of page f
Drawn(f) == drawnPageP = f /\ drawnRectsP # <<>>

\* C29: if the retrieval, the document open and the focal page's token fetch
\* all succeed and some span scores above the threshold, highlight
\* rectangles are eventually drawn on the focal page, whichever of the token
\* fetch and the mounting of the page's canvas comes first (as long as the
\* focal page stays the same).
C29_HighlightEventuallyDrawn ==
  \A f \in PreviewFocalPages : [](focalP = f) => (AllSucceeded(f) ~> Drawn(f))

\* the canvas of page g carries the rectangles matched in page g's tokens
PublishedFor(g) ==
  /\ drawnPageP = g /\ drawnFromP = g
  /\ drawnRectsP = ApplyHighlightRects(PreviewPageItems(g), PreviewQuote, CanvasHeightPx)

\* C30: when the focal page changes after highlights were published for the
\* previous focal page, the viewer fetches the new focal page's tokens again,
\* so that eventually the published highlights are those of the current focal
\* page (or the focal page has changed once more).
C30_HighlightsFollowFocalPage ==
  \A f \in PreviewFocalPages : \A g \in PreviewFocalPages \ {f} :
    (PublishedFor(g) /\ drawnRectsP # <<>> /\ focalP = f)
      ~> (PublishedFor(f) \/ focalP # f)

(***************************************************************************)
(* The scroll handler's current page and the shape of the window.          *)
(***************************************************************************)
\* C31: the currentPage the scroll handler computes and hands to
\* loadVisiblePages is the page number of the materialized page lying at the
\* top of the viewport, whatever the window contains, windows that do not
\* start at page 1 included (pages of one height, an offset inside them).
C31_CurrentPageIsTopPage ==
  [][\A scrollPosition \in 0..(Len(visiblePages) * PageHeightPx - 1) :
       HandleScrollAt(scrollPosition, PageHeightPx)
         => currentPage' = PageAtTop(visiblePages, scrollPosition, PageHeightPx)]_vars

\* C32: in every reachable state of the windowed viewer visiblePages is
\* strictly ascending (sorted, without duplicates) and each of its elements
\* is a page of the document, 1..numPages.
C32_WindowAscendingInDocument ==
  /\ \A k \in 1..(Len(visiblePages) - 1) : visiblePages[k] < visiblePages[k + 1]
  /\ \A k \in 1..Len(visiblePages) : visiblePages[k] \in 1..numPagesW

\* the scroll handler has run with a current page beyond the document, and the
\* window has grown from the seeded range to the whole document
C32_Witness ==
  /\ currentPage > numPagesW
  /\ numPagesW > 2 * PAGES_TO_LOAD
  /\ Len(visiblePages) = numPagesW

(***************************************************************************)
(* The shape of the locator's result.                                      *)
(***************************************************************************)
\* a MatchResult over the lines of a page: score -1 exactly when the span is
\* empty; otherwise the span is lines[i..j] with i <= j and the score lies in
\* [0, 1], above the threshold for the thresholded locator
ConsistentResult(m, lines, strict) ==
  /\ ScoreEqual(m.score, NoScore) <=> m.lines = <<>>
  /\ m.lines # <<>> =>
       /\ \E i \in 1..Len(lines) : \E j \in i..Len(lines) : m.lines = SubSeq(lines, i, j)
       /\ ~ScoreGreater(ScoreZero, m.score)
       /\ ~ScoreGreater(m.score, ScoreOne)
       /\ strict => ScoreGreater(m.score, Threshold)

\* C33: for every input, the result of either locator has score -1 if and
\* only if its span is empty; otherwise the span is a non-empty contiguous run
\* of the input lines in their order and the score lies in [0, 1] (strictly
\* above 0.8 for the thresholded locator).
C33_MatchResultConsistent ==
  /\ stage \in {"lenient", "strict", "highlighted"}
       => ConsistentResult(lenientOut, PrepareTextLines(textItemsIn), FALSE)
  /\ stage \in {"strict", "highlighted"}
       => ConsistentResult(strictOut, PrepareTextLines(textItemsIn), TRUE)

\* both locators have run on a page of several lines: the lenient one returns
\* a span scoring at most 0.8 and the thresholded one returns none
C33_Witness ==
  /\ stage = "strict"
  /\ Len(PrepareTextLines(textItemsIn)) > 1
  /\ lenientOut.lines # <<>>
  /\ ~ScoreGreater(lenientOut.score, Threshold)
  /\ strictOut.lines = <<>>

(***************************************************************************)
(* The fetches of the all-pages viewer.                                    *)
(***************************************************************************)
\* C34: in the all-pages viewer at most one fetch of the focal page's text is
\* in flight at any time: page-ready events arriving after loadPdfText was
\* started and before its tokens are stored start no second fetch.
C34_OneFetchInFlight == inFlightA <= 1

(***************************************************************************)
(* The page number of the single-page viewer.                              *)
(***************************************************************************)
\* C35: in the single-page viewer, after any sequence of page-number inputs
\* and document-load events the selected pageNumber is at least 1, and at
\* most numPages once the document has loaded.
C35_PageNumberInRange ==
  /\ pageNumberS >= 1
  /\ numPagesS > 0 => pageNumberS <= numPagesS
====
